---- MODULE Spec2Model ----
(***************************************************************************)
(* A model of hmm.py (mstrosaker/hmm): a hidden Markov model object, the   *)
(* scorer of one state/observation pair, the exhaustive enumerator, the    *)
(* trellis builder and the Viterbi path extractor.                         *)
(*                                                                         *)
(* Probabilities are held in hundredths (100 is 1.0, 10 is 0.1, 1 is 0.01) *)
(* and only powers of ten occur, so that math.log10 is an exact integer    *)
(* and the floating-point sums of the program are exact.  The program is   *)
(* Python 2: None orders below every number, dict.keys() is a list, and    *)
(* max() keeps the first of several maximal elements.  The order in which  *)
(* a dictionary keyed by state names is iterated is the hash order of the  *)
(* interpreter: it is fixed for a run and either order can occur.          *)
(*                                                                         *)
(* Dictionaries are objects.  A name such as probs holds a reference, and  *)
(* an item assignment or a del through the name changes the object that    *)
(* every holder of the reference sees.  trellis and viterbi_path, the two  *)
(* methods that write into dictionaries, therefore run on a heap that maps *)
(* references to contents: it starts with the dictionaries of the model,   *)
(* and the model that a call leaves behind is read back from it.           *)
(***************************************************************************)
EXTENDS Integers, Sequences, FiniteSets, TLC

VARIABLES alphabet,            \* self.alphabet
          states,              \* self.states: name -> state object
          initial_states,      \* self.initial_states (a list)
          terminating_states,  \* self.terminating_states (a list)
          terminal_state,      \* self.terminal_state
          key_order,           \* the order in which this run of the interpreter
                               \* iterates a dictionary keyed by state names
          last,                \* the latest call and its outcome
          prev                 \* outcome of the viterbi_path call just before
                               \* the latest one, when both had the same input

model == <<alphabet, states, initial_states, terminating_states, terminal_state>>
vars == <<alphabet, states, initial_states, terminating_states, terminal_state,
          key_order, last, prev>>

\* ------------------------------------------------------------------ bounds
\* longest observation sequence handed to a call
MaxLen == 3

\* ------------------------------------------------------------ Python values
None == <<>>
Num(x) == <<x>>
IsNone(v) == v = <<>>
Val(v) == v[1]

Return(v) == [kind |-> "return", exc |-> "", value |-> v]
Raise(e) == [kind |-> "raise", exc |-> e, value |-> None]

Range(s) == {s[i] : i \in 1..Len(s)}

\* Python 2 ordering of trellis entries: None is smaller than any number.
PyGreater(x, y) ==
    IF IsNone(x) THEN FALSE
    ELSE IF IsNone(y) THEN TRUE
    ELSE Val(x) > Val(y)

\* math.log10 on the probabilities of the model; 0.0 is a math domain error,
\* which every caller below turns into the ValueError the program raises.
Log10(p) ==
    CASE p = 100 -> 0
      [] p = 10 -> -1
      [] p = 1 -> -2

\* ------------------------------------------------------------------ inputs
StateNames == <<"S1", "S2">>
Symbols == <<"a", "b">>

\* the orders in which a dictionary with these keys can be iterated
KeyOrders ==
    { o \in [1..Len(StateNames) -> Range(StateNames)] :
        \A i, j \in 1..Len(StateNames) : o[i] = o[j] => i = j }

\* d.keys(), and the order of every iteration over d
keys(d) == SelectSeq(key_order, LAMBDA k : k \in DOMAIN d)

state(name, p_initial, p_emission, p_transition, p_termination) ==
    [name |-> name, p_initial |-> p_initial, p_emission |-> p_emission,
     p_transition |-> p_transition, p_termination |-> p_termination]

PInitial == {0, 10, 100}
PTermination == {0, 10}
EmissionDicts ==
    { [x \in {"a", "b"} |-> 100],
      [x \in {"a"} |-> 100],
      [x \in {"a", "b"} |-> IF x = "a" THEN 0 ELSE 100] }
TransitionDicts ==
    { [x \in {"S1", "S2"} |-> 100],
      [x \in {"S1", "S2"} |-> IF x = "S1" THEN 1 ELSE 100],
      [x \in {"S1", "S2"} |-> IF x = "S1" THEN 0 ELSE 100],
      [x \in {"S2"} |-> 100],
      [x \in {"S1"} |-> 100] }

StateDefs(name) ==
    { state(name, pi, pe, pt, pz) :
        pi \in PInitial, pe \in EmissionDicts, pt \in TransitionDicts,
        pz \in PTermination }

Observations == UNION { [1..m -> Range(Symbols)] : m \in 1..MaxLen }
StateSeqs(m) == [1..m -> Range(StateNames)]

\* ------------------------------------------------------------- constructor
\* the constructor with its p_initial test written >= instead of >
RECURSIVE hmm_init_loop_ge(_, _, _)
hmm_init_loop_ge(state_list, i, self) ==
    IF i > Len(state_list) THEN self
    ELSE LET st == state_list[i]
             s1 == [self EXCEPT !.states =
                        [n \in DOMAIN self.states \cup {st.name} |->
                            IF n = st.name THEN st ELSE self.states[n]]]
             s2 == IF st.p_initial >= 0
                   THEN [s1 EXCEPT !.initial_states = Append(@, st.name)]
                   ELSE s1
             s3 == IF st.p_termination > 0
                   THEN [s2 EXCEPT !.terminal_state = TRUE,
                                   !.terminating_states = Append(@, st.name)]
                   ELSE s2
         IN hmm_init_loop_ge(state_list, i + 1, s3)

RECURSIVE hmm_init_loop(_, _, _)
hmm_init_loop(state_list, i, self) ==
    IF i > Len(state_list) THEN self
    ELSE LET st == state_list[i]
             s1 == [self EXCEPT !.states =
                        [n \in DOMAIN self.states \cup {st.name} |->
                            IF n = st.name THEN st ELSE self.states[n]]]
             s2 == IF st.p_initial > 0
                   THEN [s1 EXCEPT !.initial_states = Append(@, st.name)]
                   ELSE s1
             s3 == IF st.p_termination > 0
                   THEN [s2 EXCEPT !.terminal_state = TRUE,
                                   !.terminating_states = Append(@, st.name)]
                   ELSE s2
         IN hmm_init_loop(state_list, i + 1, s3)

hmm_init(alphabet_in, state_list) ==
    hmm_init_loop(state_list, 1,
        [alphabet |-> alphabet_in, terminal_state |-> FALSE,
         initial_states |-> <<>>, terminating_states |-> <<>>,
         states |-> << >>])

NoCall == [op |-> "none", seq_state |-> <<>>, observed |-> <<>>,
           kind |-> "none", exc |-> "", value |-> None]

Init ==
    \E d1 \in StateDefs("S1"), d2 \in StateDefs("S2") :
        LET self == hmm_init(Symbols, <<d1, d2>>) IN
            /\ alphabet = self.alphabet
            /\ states = self.states
            /\ initial_states = self.initial_states
            /\ terminating_states = self.terminating_states
            /\ terminal_state = self.terminal_state
            /\ key_order \in KeyOrders
            /\ last = NoCall
            /\ prev = None

\* ------------------------------------------------------------------- score
RECURSIVE score_loop(_, _, _, _)
score_loop(seq_state, seq_observed, i, p) ==
    IF i > Len(seq_state) THEN Return(Num(p))
    ELSE IF seq_state[i] \notin DOMAIN states
    THEN Raise("KeyError")              \* self.states[seq_state[i]]
    ELSE
    LET state_cur == states[seq_state[i]]
        state_prev == states[seq_state[i - 1]]
        emit(q) ==
            IF seq_observed[i] \notin DOMAIN state_cur.p_emission
            THEN Return(None)
            ELSE IF state_cur.p_emission[seq_observed[i]] = 0
            THEN Return(None)
            ELSE score_loop(seq_state, seq_observed, i + 1,
                            q + Log10(state_cur.p_emission[seq_observed[i]]))
    IN  IF i = 1
        THEN IF state_cur.p_initial = 0
             THEN Return(None)
             ELSE emit(p + Log10(state_cur.p_initial))
        ELSE IF seq_state[i] \notin DOMAIN state_prev.p_transition
             THEN Return(None)
             ELSE IF state_prev.p_transition[seq_state[i]] = 0
             THEN Raise("ValueError")   \* math.log10(0.0)
             ELSE emit(p + Log10(state_prev.p_transition[seq_state[i]]))

score(seq_state, seq_observed) ==
    IF Len(seq_state) = 0 /\ terminal_state
    THEN Raise("IndexError")            \* seq_state[-1] of an empty list
    ELSE IF terminal_state
            /\ seq_state[Len(seq_state)] \notin Range(terminating_states)
    THEN Return(None)
    ELSE score_loop(seq_state, seq_observed, 1, 0)

\* --------------------------------------------------------------- enumerate
\* The lines printed are part of the outcome: those of the valid sequences in
\* `printed` (on a raise too: they were printed before it), the BEST line in
\* best_seq and best_score.
\* itertools.product(self.states.keys(), repeat=m), in its order: the last
\* position varies fastest.
RECURSIVE product(_, _)
product(names, m) ==
    IF m = 0 THEN << <<>> >>
    ELSE LET shorter == product(names, m - 1)
             n == Len(names)
         IN [k \in 1..(Len(shorter) * n) |->
                Append(shorter[((k - 1) \div n) + 1], names[((k - 1) % n) + 1])]

RECURSIVE enumerate_loop(_, _, _, _, _, _)
enumerate_loop(seqs, observed, k, printed, best_seq, best_score) ==
    IF k > Len(seqs)
    THEN IF IsNone(best_score)
         THEN [Raise("TypeError") EXCEPT !.value = [printed |-> printed]]
                                        \* '%f' % None
         ELSE Return([printed |-> printed, best_seq |-> best_seq,
                      best_score |-> best_score])
    ELSE LET r == score(seqs[k], observed) IN
         IF r.kind = "raise"
         THEN [r EXCEPT !.value = [printed |-> printed]]
         ELSE IF IsNone(r.value)
         THEN enumerate_loop(seqs, observed, k + 1, printed, best_seq, best_score)
         ELSE IF IsNone(best_score) \/ Val(r.value) > Val(best_score)
         THEN enumerate_loop(seqs, observed, k + 1,
                             Append(printed, <<seqs[k], r.value>>),
                             seqs[k], r.value)
         ELSE enumerate_loop(seqs, observed, k + 1,
                             Append(printed, <<seqs[k], r.value>>),
                             best_seq, best_score)

enumerate(observed) ==
    enumerate_loop(product(keys(states), Len(observed)), observed, 1,
                   <<>>, None, None)

\* ---------------------------------------------------------- table lookups
p_emit(st, observation) ==
    IF st \notin DOMAIN states THEN None
    ELSE IF observation \notin DOMAIN states[st].p_emission THEN Num(0)
    ELSE Num(states[st].p_emission[observation])

p_transition(from_state, to_state) ==
    IF from_state \notin DOMAIN states THEN None
    ELSE IF to_state \notin DOMAIN states[from_state].p_transition THEN Num(0)
    ELSE Num(states[from_state].p_transition[to_state])

connected(from_state, to_state) ==
    IF from_state \notin DOMAIN states THEN FALSE
    ELSE IF to_state \notin DOMAIN states[from_state].p_transition THEN FALSE
    ELSE states[from_state].p_transition[to_state] > 0

\* ----------------------------------------------------------------- trellis
first_column(symbol) ==
    [s \in DOMAIN states |->
        LET p_init == states[s].p_initial
            pe == p_emit(s, symbol)
        IN IF p_init = 0 \/ pe = Num(0) THEN None
           ELSE Num(Log10(p_init) + Log10(Val(pe)))]

\* the inner loop with its comparison turned around: it keeps the smallest
RECURSIVE best_loop_smallest(_, _, _, _, _, _)
best_loop_smallest(prior_probs, names, k, st, pe, best) ==
    IF k > Len(names) THEN best
    ELSE LET prev_state == names[k]
             prev_prob == prior_probs[prev_state]
         IN IF IsNone(prev_prob)
            THEN best_loop_smallest(prior_probs, names, k + 1, st, pe, best)
            ELSE IF connected(prev_state, st)
            THEN LET p_tran == p_transition(prev_state, st)
                     s == Val(prev_prob) + Log10(Val(pe)) + Log10(Val(p_tran))
                 IN IF IsNone(best) \/ s < Val(best)
                    THEN best_loop_smallest(prior_probs, names, k + 1, st, pe, Num(s))
                    ELSE best_loop_smallest(prior_probs, names, k + 1, st, pe, best)
            ELSE best_loop_smallest(prior_probs, names, k + 1, st, pe, best)

\* the inner loop over prior_probs.iteritems() for one state of column i > 0
RECURSIVE best_loop(_, _, _, _, _, _)
best_loop(prior_probs, names, k, st, pe, best) ==
    IF k > Len(names) THEN best
    ELSE LET prev_state == names[k]
             prev_prob == prior_probs[prev_state]
         IN IF IsNone(prev_prob)
            THEN best_loop(prior_probs, names, k + 1, st, pe, best)
            ELSE IF connected(prev_state, st)
            THEN LET p_tran == p_transition(prev_state, st)
                     s == Val(prev_prob) + Log10(Val(pe)) + Log10(Val(p_tran))
                 IN IF IsNone(best) \/ s > Val(best)
                    THEN best_loop(prior_probs, names, k + 1, st, pe, Num(s))
                    ELSE best_loop(prior_probs, names, k + 1, st, pe, best)
            ELSE best_loop(prior_probs, names, k + 1, st, pe, best)

next_column(prior_probs, symbol) ==
    [s \in DOMAIN states |->
        LET pe == p_emit(s, symbol)
        IN IF pe = Num(0) THEN None
           ELSE best_loop(prior_probs, keys(prior_probs), 1, s, pe, None)]

\* the adjustment without the line that makes the other states unreachable
RECURSIVE last_column_loop_keep(_, _, _)
last_column_loop_keep(probs, names, k) ==
    IF k > Len(names) THEN Return(probs)
    ELSE LET s == names[k] IN
         IF s \notin Range(terminating_states)
         THEN last_column_loop_keep(probs, names, k + 1)
         ELSE IF IsNone(probs[s])
         THEN Raise("TypeError")
         ELSE last_column_loop_keep(
                  [probs EXCEPT ![s] = Num(Val(@) + Log10(states[s].p_termination))],
                  names, k + 1)

\* the adjustment of the last column when there is an implied terminal state
RECURSIVE last_column_loop(_, _, _)
last_column_loop(probs, names, k) ==
    IF k > Len(names) THEN Return(probs)
    ELSE LET s == names[k] IN
         IF s \notin Range(terminating_states)
         THEN last_column_loop([probs EXCEPT ![s] = None], names, k + 1)
         ELSE IF IsNone(probs[s])
         THEN Raise("TypeError")        \* None += float
         ELSE last_column_loop(
                  [probs EXCEPT ![s] = Num(Val(@) + Log10(states[s].p_termination))],
                  names, k + 1)

last_column(probs) ==
    IF terminal_state
    THEN last_column_loop(probs, keys(states), 1)
    ELSE Return(probs)

\* ------------------------------------------------------------------ objects
\* the reference of self.states
SelfStates == 0

\* the states that self.states holds, in the order of the constructor's list
held == SelectSeq(StateNames, LAMBDA s : s \in DOMAIN states)

\* the references of the two dictionaries of a state object
p_emission_ref(name) ==
    2 * (CHOOSE k \in 1..Len(held) : held[k] = name) - 1
p_transition_ref(name) ==
    2 * (CHOOSE k \in 1..Len(held) : held[k] = name)

\* the dictionaries that the model object reaches when a call begins:
\* self.states, whose state objects refer to their two tables
self_heap ==
    [r \in 0..(2 * Len(held)) |->
        IF r = SelfStates
        THEN [s \in DOMAIN states |->
                [name |-> states[s].name,
                 p_initial |-> states[s].p_initial,
                 p_emission |-> p_emission_ref(s),
                 p_transition |-> p_transition_ref(s),
                 p_termination |-> states[s].p_termination]]
        ELSE IF r % 2 = 1
        THEN states[held[(r + 1) \div 2]].p_emission
        ELSE states[held[r \div 2]].p_transition]

\* self.states as the heap holds it when a call has ended
states_in(heap) ==
    [s \in DOMAIN heap[SelfStates] |->
        LET o == heap[SelfStates][s]
        IN state(o.name, o.p_initial, heap[o.p_emission],
                 heap[o.p_transition], o.p_termination)]

\* {}: a dictionary object that did not exist before
new_dict(heap) == Cardinality(DOMAIN heap)

\* the dictionaries that a list of references refers to
contents(heap, refs) == [i \in 1..Len(refs) |-> heap[refs[i]]]

\* the outcome of a call on the heap, with a returned list of dictionaries
\* given by its contents
by_value(r) ==
    IF r.out.kind = "raise" THEN r.out
    ELSE Return(contents(r.heap, r.out.value))

\* ----------------------------------------------------------------- trellis
\* The loop over the symbols.  probs is the reference of the dictionary that
\* line 227 makes for the column, built the list trellis of the references
\* appended so far, prior_probs the reference of the column before.  The
\* item assignments of lines 236-269 go to the object of probs.
RECURSIVE trellis_loop(_, _, _, _, _)
trellis_loop(heap, observed, i, built, prior_probs) ==
    IF i > Len(observed) THEN [out |-> Return(built), heap |-> heap]
    ELSE LET probs == new_dict(heap)
             filled == IF i = 1 THEN first_column(observed[i])
                       ELSE next_column(heap[prior_probs], observed[i])
             adjusted == IF i = Len(observed) THEN last_column(filled)
                         ELSE Return(filled)
         IN IF adjusted.kind = "raise"
            \* the exception ends the call, and the column goes with its frame
            THEN [out |-> adjusted, heap |-> heap]
            ELSE trellis_loop(heap @@ (probs :> adjusted.value), observed,
                              i + 1, Append(built, probs), probs)

\* trellis on a heap: the list of the references of the columns, and the
\* heap when the call ends
trellis_in(heap, observed) == trellis_loop(heap, observed, 1, <<>>, None)

\* the list of dictionaries that self.trellis(observed) returns
trellis(observed) == by_value(trellis_in(self_heap, observed))

\* ------------------------------------------------------------ viterbi_path
\* max(probs, key=probs.get): the first key, in iteration order, whose value
\* no later key exceeds
RECURSIVE max_loop(_, _, _, _)
max_loop(probs, names, k, best) ==
    IF k > Len(names) THEN best
    ELSE IF PyGreater(probs[names[k]], probs[best])
    THEN max_loop(probs, names, k + 1, names[k])
    ELSE max_loop(probs, names, k + 1, best)

max_key(probs) == max_loop(probs, keys(probs), 2, keys(probs)[1])

\* the deletions without the test for an edge to the next state
eliminate_unreachable_only(probs, next_state) ==
    LET kept == {s \in DOMAIN probs : ~IsNone(probs[s])}
    IN [s \in kept |-> probs[s]]

\* the column after the deletions of the backward pass
eliminate(probs, next_state) ==
    LET kept == {s \in DOMAIN probs :
                    ~IsNone(probs[s]) /\ connected(s, next_state)}
    IN [s \in kept |-> probs[s]]

\* the deletions made in self.states instead of in the column
delete_in_self_states(heap, probs, next_state) ==
    [heap EXCEPT ![SelfStates] =
        [s \in DOMAIN @ \cap DOMAIN eliminate(heap[probs], next_state) |-> @[s]]]

\* the loop of lines 305-309: each del probs[state] removes an item from the
\* object that probs refers to
delete_in(heap, probs, next_state) ==
    [heap EXCEPT ![probs] = eliminate(@, next_state)]

\* the backward pass; trellis_refs is the list trellis, which holds the
\* references of the columns
RECURSIVE backward_loop(_, _, _, _, _, _)
backward_loop(heap, trellis_refs, i, next_state, state_seq, p_overall) ==
    IF i < 1
    THEN [out |-> Return([state_seq |-> state_seq, p_overall |-> p_overall,
                          trellis |-> trellis_refs]),
          heap |-> heap]
    ELSE LET probs == trellis_refs[i]
             after == delete_in(heap, probs, next_state)
         IN IF DOMAIN after[probs] = {}
            \* max() of an empty sequence
            THEN [out |-> Raise("ValueError"), heap |-> after]
            ELSE LET chosen == max_key(after[probs]) IN
                 backward_loop(after, trellis_refs, i - 1, chosen,
                               <<chosen>> \o state_seq, p_overall)

\* viterbi_path on a heap, up to its return statement: the path, the score
\* and the references of the working trellis, and the heap when the call ends
viterbi_path_in(heap, observed) ==
    LET t == trellis_in(heap, observed) IN
    IF t.out.kind = "raise" THEN t
    ELSE IF Len(t.out.value) = 0
    THEN [out |-> Raise("IndexError"), heap |-> t.heap]     \* trellis[-1]
    ELSE LET trellis_refs == t.out.value
             probs == trellis_refs[Len(trellis_refs)]
             next_state == max_key(t.heap[probs])
         IN backward_loop(t.heap, trellis_refs, Len(trellis_refs) - 1,
                          next_state, <<next_state>>,
                          t.heap[probs][next_state])

\* viterbi_path up to its return statement, with the working trellis given
\* by the contents its columns are left with
viterbi_run(observed) ==
    LET r == viterbi_path_in(self_heap, observed) IN
    IF r.out.kind = "raise" THEN r.out
    ELSE Return([r.out.value EXCEPT !.trellis = contents(r.heap, @)])

\* the outcome of viterbi_path, given the call on the heap: the tuple
\* (state_seq, p_overall), or the exception
returned(r) ==
    IF r.out.kind = "raise" THEN r.out
    ELSE Return([state_seq |-> r.out.value.state_seq,
                 p_overall |-> r.out.value.p_overall])

viterbi_path(observed) == returned(viterbi_path_in(self_heap, observed))

\* ------------------------------------------------------------------- calls
Called(op, seq_state, observed, r) ==
    [op |-> op, seq_state |-> seq_state, observed |-> observed,
     kind |-> r.kind, exc |-> r.exc, value |-> r.value]

\* score has no assignment but to its local p
Score ==
    /\ last = NoCall
    /\ \E observed \in Observations :
       \E seq_state \in StateSeqs(Len(observed)) :
          last' = Called("score", seq_state, observed, score(seq_state, observed))
    /\ prev' = None
    /\ UNCHANGED <<model, key_order>>

\* enumerate has no assignment but to its locals best_score and best_seq
Enumerate ==
    /\ last = NoCall
    /\ \E observed \in Observations :
          last' = Called("enumerate", <<>>, observed, enumerate(observed))
    /\ prev' = None
    /\ UNCHANGED <<model, key_order>>

\* trellis assigns to no attribute of self, and the one list it appends to
\* is its own; what it does to the dictionaries is read back from the heap
Trellis ==
    /\ last = NoCall
    /\ \E observed \in Observations :
          \E r \in {trellis_in(self_heap, observed)} :
             /\ last' = Called("trellis", <<>>, observed, by_value(r))
             /\ states' = states_in(r.heap)
    /\ prev' = None
    /\ UNCHANGED <<alphabet, initial_states, terminating_states,
                   terminal_state, key_order>>

\* viterbi_path assigns to no attribute of self, and the one list it appends
\* to and reverses is its own state_seq; what it does to the dictionaries is
\* read back from the heap
ViterbiPath ==
    /\ last = NoCall
    /\ \E observed \in Observations :
          \E r \in {viterbi_path_in(self_heap, observed)} :
             /\ last' = Called("viterbi_path", <<>>, observed, returned(r))
             /\ states' = states_in(r.heap)
    /\ prev' = None
    /\ UNCHANGED <<alphabet, initial_states, terminating_states,
                   terminal_state, key_order>>

\* a second viterbi_path call right after the first, on the same observation
ViterbiPathAgain ==
    /\ last.op = "viterbi_path"
    /\ IsNone(prev)
    /\ \E r \in {viterbi_path_in(self_heap, last.observed)} :
          /\ last' = Called("viterbi_path", <<>>, last.observed, returned(r))
          /\ states' = states_in(r.heap)
    /\ prev' = Num([kind |-> last.kind, exc |-> last.exc, value |-> last.value])
    /\ UNCHANGED <<alphabet, initial_states, terminating_states,
                   terminal_state, key_order>>

\* the caller is done with the outcome of the latest call
Drop ==
    /\ last # NoCall
    /\ last' = NoCall
    /\ prev' = None
    /\ UNCHANGED <<model, key_order>>

Next ==
    \/ Score
    \/ Enumerate
    \/ Trellis
    \/ ViterbiPath
    \/ ViterbiPathAgain
    \/ Drop

Spec == Init /\ [][Next]_vars

\* ================================================================== claims
\* The notions the claims are stated in, defined from the probability tables
\* alone.

Outcome(c) == [kind |-> c.kind, exc |-> c.exc, value |-> c.value]

\* seq_state is a valid explanation of observed
Explains(seq_state, observed) ==
    LET n == Len(seq_state) IN
    /\ states[seq_state[1]].p_initial > 0
    /\ \A i \in 2..n :
          /\ seq_state[i] \in DOMAIN states[seq_state[i - 1]].p_transition
          /\ states[seq_state[i - 1]].p_transition[seq_state[i]] > 0
    /\ \A i \in 1..n :
          /\ observed[i] \in DOMAIN states[seq_state[i]].p_emission
          /\ states[seq_state[i]].p_emission[observed[i]] > 0
    /\ terminal_state => states[seq_state[n]].p_termination > 0

RECURSIVE SumOver(_, _, _)
SumOver(f(_), lo, hi) == IF lo > hi THEN 0 ELSE f(lo) + SumOver(f, lo + 1, hi)

\* log10 of the joint probability of a valid explanation
JointLog(seq_state, observed) ==
    LET n == Len(seq_state)
        tran(i) == Log10(states[seq_state[i - 1]].p_transition[seq_state[i]])
        emis(i) == Log10(states[seq_state[i]].p_emission[observed[i]])
    IN Log10(states[seq_state[1]].p_initial)
       + SumOver(tran, 2, n) + SumOver(emis, 1, n)
       + (IF terminal_state THEN Log10(states[seq_state[n]].p_termination) ELSE 0)

\* the numbers score gives to the state sequences of the length of observed
Scores(observed) ==
    { Val(score(q, observed).value) :
        q \in { x \in StateSeqs(Len(observed)) :
                  /\ score(x, observed).kind = "return"
                  /\ ~IsNone(score(x, observed).value) } }

Maximum(S) == CHOOSE v \in S : \A w \in S : w <= v

\* the last column as it is before the terminal-state adjustment, given the
\* columns that a trellis call returned
RawLastColumn(columns, observed) ==
    LET m == Len(observed) IN
    IF m = 1 THEN first_column(observed[1])
    ELSE next_column(columns[m - 1], observed[m])

NoEdge(from_state, to_state) ==
    \/ to_state \notin DOMAIN states[from_state].p_transition
    \/ states[from_state].p_transition[to_state] = 0

\* some column of the working trellis lost an entry in the backward pass
Deleted(observed) ==
    LET r == viterbi_run(observed) IN
    /\ r.kind = "return"
    /\ \E i \in 1..Len(observed) : DOMAIN r.value.trellis[i] # DOMAIN states

\* C1: whenever viterbi_path returns a path for an observation that has a
\* valid explanation, the path is a valid explanation and no state sequence
\* of the same length has a strictly higher joint probability.
C1_ReturnedPathIsMostProbable ==
    ( /\ last.op = "viterbi_path"
      /\ last.kind = "return"
      /\ \E q \in StateSeqs(Len(last.observed)) : Explains(q, last.observed) )
    => LET path == last.value.state_seq IN
       /\ Explains(path, last.observed)
       /\ \A q \in StateSeqs(Len(last.observed)) :
             Explains(q, last.observed)
             => JointLog(q, last.observed) <= JointLog(path, last.observed)

\* C2: when score gives a number to at least one state sequence, viterbi_path
\* returns, and its score is the largest number score gives to any state
\* sequence of that length (the BEST score of enumerate).
C2_ViterbiAgreesWithEnumerate ==
    ( /\ last.op = "viterbi_path"
      /\ Scores(last.observed) # {} )
    => /\ last.kind = "return"
       /\ last.value.p_overall = Num(Maximum(Scores(last.observed)))

\* C3: when viterbi_path returns (path, p), score(path, observed) returns a
\* number, and that number is p.
C3_ScoreReproducesViterbi ==
    ( /\ last.op = "viterbi_path"
      /\ last.kind = "return" )
    => LET r == score(last.value.state_seq, last.observed) IN
       /\ r.kind = "return"
       /\ ~IsNone(r.value)
       /\ r.value = last.value.p_overall

\* C4: when every entry of the last trellis column is unreachable,
\* viterbi_path raises an error; it never returns a path with the score None.
C4_UnexplainableIsReported ==
    last.op = "viterbi_path"
    => /\ ( /\ trellis(last.observed).kind = "return"
            /\ \A s \in DOMAIN states :
                  IsNone(trellis(last.observed).value[Len(last.observed)][s]) )
          => last.kind = "raise"
       /\ last.kind = "return" => ~IsNone(last.value.p_overall)

\* C5: with an implied terminal state, trellis returns one column per symbol;
\* in the last column a non-terminating state is unreachable, a terminating
\* state without a valid path stays unreachable, and a terminating state with
\* a valid path has log10(p_termination) added to its score.
C5_TrellisWithTerminalState ==
    ( /\ last.op = "trellis"
      /\ terminal_state )
    => /\ last.kind = "return"
       /\ Len(last.value) = Len(last.observed)
       /\ LET col == last.value[Len(last.observed)]
              raw == RawLastColumn(last.value, last.observed)
          IN \A s \in DOMAIN states :
                IF s \notin Range(terminating_states) THEN IsNone(col[s])
                ELSE IF IsNone(raw[s]) THEN IsNone(col[s])
                ELSE col[s] = Num(Val(raw[s]) + Log10(states[s].p_termination))

\* C6: score returns None, and raises nothing, when some transition of the
\* state sequence is absent from the previous state's table or is there with
\* probability 0.
C6_ScoreInvalidOnMissingTransition ==
    ( /\ last.op = "score"
      /\ \E i \in 2..Len(last.seq_state) :
            NoEdge(last.seq_state[i - 1], last.seq_state[i]) )
    => /\ last.kind = "return"
       /\ IsNone(last.value)

\* C7: with an implied terminal state, a state sequence that score gives a
\* number to, and a path that viterbi_path returns, ends in a state of
\* terminating_states.
C7_LastStateTerminates ==
    terminal_state
    => /\ ( /\ last.op = "score"
            /\ last.kind = "return"
            /\ ~IsNone(last.value) )
          => last.seq_state[Len(last.seq_state)] \in Range(terminating_states)
       /\ ( /\ last.op = "viterbi_path"
            /\ last.kind = "return" )
          => last.value.state_seq[Len(last.observed)] \in Range(terminating_states)

\* viterbi_path returned a path of two or more states in a model where a
\* state that cannot terminate had a valid path to the last column
C7_Witness ==
    /\ terminal_state
    /\ last.op = "viterbi_path"
    /\ last.kind = "return"
    /\ Len(last.observed) >= 2
    /\ \E s \in DOMAIN states :
          /\ s \notin Range(terminating_states)
          /\ ~IsNone(RawLastColumn(trellis(last.observed).value, last.observed)[s])

\* C8: after construction initial_states lists exactly the states with
\* p_initial > 0, terminating_states exactly those with p_termination > 0,
\* each once, and terminal_state is true exactly when there is one of the
\* latter.
C8_DerivedSets ==
    /\ Range(initial_states) = {n \in DOMAIN states : states[n].p_initial > 0}
    /\ Len(initial_states) = Cardinality(Range(initial_states))
    /\ Range(terminating_states)
          = {n \in DOMAIN states : states[n].p_termination > 0}
    /\ Len(terminating_states) = Cardinality(Range(terminating_states))
    /\ terminal_state <=> (Len(terminating_states) > 0)

\* a freshly constructed model in which the first state can neither start
\* nor end a sequence and the second can do both
C8_Witness ==
    /\ last = NoCall
    /\ states["S1"].p_initial = 0
    /\ states["S1"].p_termination = 0
    /\ states["S2"].p_initial > 0
    /\ states["S2"].p_termination > 0
    /\ initial_states = <<"S2">>

\* C9: no call changes the model: after every step the alphabet, the states
\* with their tables, initial_states, terminating_states and terminal_state
\* are what they were before it.
C9_ModelNeverChanges == [][model' = model]_vars

\* viterbi_path has returned after deleting entries from its working columns
C9_Witness ==
    /\ last.op = "viterbi_path"
    /\ last.kind = "return"
    /\ IsNone(prev)
    /\ Deleted(last.observed)

\* C10: a second viterbi_path call on the same observation has the outcome of
\* the first: the same path and the same score.
C10_SecondCallAgrees ==
    ( /\ last.op = "viterbi_path"
      /\ ~IsNone(prev) )
    => Outcome(last) = Val(prev)

\* the first of two calls returned a path with a score after deleting
\* entries from its working columns, and the second has returned
C10_Witness ==
    /\ last.op = "viterbi_path"
    /\ ~IsNone(prev)
    /\ Val(prev).kind = "return"
    /\ ~IsNone(Val(prev).value.p_overall)
    /\ last.kind = "return"
    /\ Deleted(last.observed)

\* q is a valid path for the first Len(q) symbols of observed: it starts in a
\* state with non-zero p_initial, uses transitions of non-zero probability
\* and emits every symbol with non-zero probability
PrefixPath(q, observed) ==
    /\ states[q[1]].p_initial > 0
    /\ \A i \in 2..Len(q) :
          /\ q[i] \in DOMAIN states[q[i - 1]].p_transition
          /\ states[q[i - 1]].p_transition[q[i]] > 0
    /\ \A i \in 1..Len(q) :
          /\ observed[i] \in DOMAIN states[q[i]].p_emission
          /\ states[q[i]].p_emission[observed[i]] > 0

\* log10 of the joint probability of a valid path and the symbols it emits
PrefixLog(q, observed) ==
    LET tran(i) == Log10(states[q[i - 1]].p_transition[q[i]])
        emis(i) == Log10(states[q[i]].p_emission[observed[i]])
    IN Log10(states[q[1]].p_initial)
       + SumOver(tran, 2, Len(q)) + SumOver(emis, 1, Len(q))

\* the valid paths of length i that end in state s
PathsTo(s, i, observed) ==
    {q \in StateSeqs(i) : q[i] = s /\ PrefixPath(q, observed)}

\* the columns C11 speaks of: all of them without an implied terminal state,
\* all but the last with one
PlainColumns(observed) ==
    IF terminal_state THEN 1..(Len(observed) - 1) ELSE 1..Len(observed)

\* C11: in every column that the terminal-state adjustment does not touch, an
\* entry of the trellis is reachable exactly when some valid path of that
\* length ends in its state, and is then the largest joint log-probability
\* of those paths.
C11_TrellisIsBestPrefixScore ==
    ( /\ last.op = "trellis"
      /\ last.kind = "return" )
    => \A i \in PlainColumns(last.observed) :
          \A s \in DOMAIN states :
             LET paths == PathsTo(s, i, last.observed)
                 entry == last.value[i][s]
             IN /\ IsNone(entry) <=> paths = {}
                /\ paths # {}
                   => entry = Num(Maximum({PrefixLog(q, last.observed) : q \in paths}))

\* trellis returned three or more columns; in a column after the first, one
\* state has two valid paths of different probability and the other has none
C11_Witness ==
    /\ last.op = "trellis"
    /\ last.kind = "return"
    /\ Len(last.observed) >= 3
    /\ \E i \in PlainColumns(last.observed) :
          /\ i >= 2
          /\ \E s \in DOMAIN states :
                \E q1, q2 \in PathsTo(s, i, last.observed) :
                   PrefixLog(q1, last.observed) < PrefixLog(q2, last.observed)
          /\ \E s \in DOMAIN states :
                /\ IsNone(last.value[i][s])
                /\ PathsTo(s, i, last.observed) = {}

\* the last column that trellis builds for observed has a reachable state
LastColumnReachable(observed) ==
    LET t == trellis(observed) IN
    /\ t.kind = "return"
    /\ \E s \in DOMAIN states : ~IsNone(t.value[Len(observed)][s])

\* C12: when the last trellis column has a reachable state, viterbi_path
\* returns (no column of the backward pass is left without a survivor), and
\* the path has one state per symbol, starts in a state with non-zero
\* p_initial, moves only along transitions of non-zero probability and has
\* every state emit its symbol with non-zero probability.
C12_BackwardPassFindsValidPath ==
    ( /\ last.op = "viterbi_path"
      /\ LastColumnReachable(last.observed) )
    => /\ last.kind = "return"
       /\ Len(last.value.state_seq) = Len(last.observed)
       /\ PrefixPath(last.value.state_seq, last.observed)

\* viterbi_path returned a path of three states after a backward pass that
\* deleted a reachable state for want of an edge to the next state
C12_Witness ==
    /\ last.op = "viterbi_path"
    /\ last.kind = "return"
    /\ LastColumnReachable(last.observed)
    /\ Len(last.observed) >= 3
    /\ LET t == trellis(last.observed).value
           path == last.value.state_seq
       IN \E i \in 1..(Len(last.observed) - 1) :
             \E s \in DOMAIN states :
                /\ ~IsNone(t[i][s])
                /\ ~connected(s, path[i + 1])
====
